---- MODULE Spec2Model ----
(***************************************************************************)
(* Relying-party side of spid-cie-oidc-django:                             *)
(*   - the JOSE helpers of spid_cie_oidc_authority/jwtse.py                *)
(*   - the begin / callback / logout views of                              *)
(*     spid_cie_oidc/relying_party/views.py                                *)
(***************************************************************************)
EXTENDS Integers, Sequences, FiniteSets, TLC

None == "None"

(***************************************************************************)
(* JOSE layer: keys, compact tokens, results                               *)
(***************************************************************************)

\* key ids and key material (two kids, two moduli: a key id does not fix the key)
Kids == {"k1", "k2"}
Mats == {"m1", "m2"}

\* a JWK dict: its kid, its key material, and whether the private part is present
Jwks == [kid : Kids, mat : Mats, priv : BOOLEAN]

\* key.public_key(): the same kid and modulus without the private part
PublicOf(jwk) == [jwk EXCEPT !.priv = FALSE]

\* algorithms cryptojwt signs / verifies with an RSA key, and encrypts with
SigAlgs == {"RS256"}
EncAlgs == {"RSA-OAEP", "RSA_1_5"}
Algs == SigAlgs \cup EncAlgs \cup {"none", ""}

\* JSON objects used as payloads; "empty" is {} (falsy in Python)
Payloads == {"empty", "claims"}

\* json.dumps / json.loads of a JSON object
JsonDumps(obj) == <<"json", obj>>
JsonLoads(str) == str[2]

\* A compact token as the code sees it:
\*   wf   - the first segment base64-decodes to a JSON header
\*   form - "jws" or "jwe"
\*   kid, alg - header fields (None: the field is absent)
\*   body - the serialised payload
\*   by   - material of the key that signed / encrypted it ("bad": no key does)
Tokens == [wf : {TRUE}, form : {"jws", "jwe"}, kid : Kids \cup {None},
           alg : Algs \cup {None}, body : {JsonDumps(p) : p \in Payloads},
           by : Mats \cup {"bad"}]

\* an opaque (non-JWT) string: its first segment is no base64 JSON header
OpaqueToken == [wf |-> FALSE, form |-> "opaque", kid |-> None, alg |-> None,
                body |-> JsonDumps("empty"), by |-> "bad"]

AnyTokens == Tokens \cup {OpaqueToken}

\* outcome of a helper: the exception raised ("none": it returned), the value
\* returned, and whether the cryptographic primitive was invoked
Raise(e) == [exc |-> e, msg |-> None, crypto |-> FALSE]
Return(v) == [exc |-> "none", msg |-> v, crypto |-> TRUE]
CryptoRaise(e) == [exc |-> e, msg |-> None, crypto |-> TRUE]

VARIABLES
    DISABLED_JWT_ALGS,  \* jwtse.py:28 the disabled-algorithm set
    JWE_ALG,            \* jwtse.py:22 default JWE algorithm
    OIDCFED_TRUST_ANCHORS,  \* views.py:78 settings: the allowed trust anchors
    jtok,               \* JOSE harness: the token at hand
    jkey,               \* JOSE harness: the key last used
    jorigin,            \* JOSE harness: how jtok was made (the sign/encrypt inputs)
    jres,               \* JOSE harness: outcome of the last verify/decrypt
    jhead               \* jwtse.py:34-38 unpad_jwt_head at work on a first segment

joseVars == <<jtok, jkey, jorigin, jres, jhead>>
confVars == <<DISABLED_JWT_ALGS, JWE_ALG, OIDCFED_TRUST_ANCHORS>>

\* local_settings defaults of the repository
DefaultDisabledAlgs == {"RSA_1_5", "none"}
DefaultJweAlg == "RSA-OAEP"
JWE_ENC == "A256CBC-HS512"

\* ---- unpad_jwt_head, by the length of the first segment -------------------
\* the longest first segment looked at
MaxSegLen == 63

\* divmod(len(b), 4)[1]: the number of '=' appended
PadCount(n) == n % 4
\* len(padded), padded = f"{b}{'=' * divmod(len(b),4)[1]}"
PaddedLen(n) == n + PadCount(n)
\* base64.b64decode(padded), not validating: padding beyond the last quad is
\* ignored; binascii.Error when the data characters are 1 more than a
\* multiple of 4
B64Decodes(n) == n % 4 # 1

\* n: len(b); json: b is the encoding of a JSON object; padded: len(padded);
\* exc: the exception unpad_jwt_head ends in ("none": it returned the header)
IdleHead == [pc |-> "idle", n |-> 0, json |-> FALSE, padded |-> 0, exc |-> "none"]

\* unpad_jwt_head: the decoded header, or an exception when the first segment
\* is not base64 of a JSON object
HeadDecodes(jwt) == jwt.wf

\* cryptojwt JWS(alg).verify_compact(jws, [key]): the payload, or BadSignature
VerifyCompact(jws, key) ==
    IF jws.form = "jws" /\ jws.alg \in SigAlgs /\ jws.by = key.mat
    THEN Return(JsonLoads(jws.body))
    ELSE CryptoRaise("BadSignature")

\* mutant: the kid comparison is dropped
VerifyJwsNoKidCheck(jws, pub_jwk) ==
    IF ~HeadDecodes(jws) THEN Raise("MalformedToken")
    ELSE IF jws.alg = None THEN Raise("KeyError")
    ELSE IF jws.alg \in DISABLED_JWT_ALGS \/ jws.alg = "" THEN Raise("UnsupportedAlgorithm")
    ELSE VerifyCompact(jws, pub_jwk)

\* mutant: the disabled-set test is dropped
VerifyJwsNoAlgPolicy(jws, pub_jwk) ==
    IF ~HeadDecodes(jws) THEN Raise("MalformedToken")
    ELSE IF jws.kid # pub_jwk.kid THEN Raise("KeyMismatch")
    ELSE IF jws.alg = None THEN Raise("KeyError")
    ELSE VerifyCompact(jws, pub_jwk)

\* verify_jws(jws, pub_jwk)
VerifyJws(jws, pub_jwk) ==
    IF ~HeadDecodes(jws) THEN Raise("MalformedToken")
    ELSE IF jws.kid # pub_jwk.kid THEN Raise("KeyMismatch")
    ELSE IF jws.alg = None THEN Raise("KeyError")
    ELSE IF jws.alg \in DISABLED_JWT_ALGS \/ jws.alg = "" THEN Raise("UnsupportedAlgorithm")
    ELSE VerifyCompact(jws, pub_jwk)

\* cryptojwt JWS(payload, alg).sign_compact([key]): an empty alg is "none";
\* "none" gives an unsigned token whose header carries no kid; a signing
\* algorithm needs the private part and puts the key's kid in the header
SignCompact(payload, key, alg) ==
    IF alg \in {"", "none"}
    THEN [exc |-> "none",
          jws |-> [wf |-> TRUE, form |-> "jws", kid |-> None, alg |-> "none",
                   body |-> JsonDumps(payload), by |-> "bad"]]
    ELSE IF alg \notin SigAlgs THEN [exc |-> "UnknownAlgorithm", jws |-> None]
    ELSE IF ~key.priv THEN [exc |-> "NoSuitableSigningKeys", jws |-> None]
    ELSE [exc |-> "none",
          jws |-> [wf |-> TRUE, form |-> "jws", kid |-> key.kid, alg |-> alg,
                   body |-> JsonDumps(payload), by |-> key.mat]]

\* create_jws(payload, jwk_dict, alg): the headers argument never reaches the token
CreateJws(payload, jwk_dict, alg) == SignCompact(payload, jwk_dict, alg)

\* encrypt_dict(plain_dict, jwk_dict)
EncryptDict(plain_dict, jwk_dict) ==
    [wf |-> TRUE, form |-> "jwe", kid |-> jwk_dict.kid, alg |-> JWE_ALG,
     body |-> JsonDumps(plain_dict), by |-> PublicOf(jwk_dict).mat]

\* cryptojwt factory(jwe, alg, enc).decrypt(jwe, [key]): factory gives None for
\* a token that is no JWE, decrypt needs the private key the token was made for
FactoryDecrypt(jwe, alg, key) ==
    IF jwe.form # "jwe" THEN Raise("AttributeError")
    ELSE IF alg \in EncAlgs /\ key.priv /\ jwe.by = key.mat
    THEN Return(JsonLoads(jwe.body))
    ELSE CryptoRaise("DecryptionFailed")

\* mutant: the disabled-set test is dropped
DecryptJweNoAlgPolicy(jwe, jwk_dict) ==
    IF ~HeadDecodes(jwe) THEN Raise("VerificationError")
    ELSE FactoryDecrypt(jwe, IF jwe.alg = None THEN JWE_ALG ELSE jwe.alg, jwk_dict)

\* decrypt_jwe(jwe, jwk_dict)
DecryptJwe(jwe, jwk_dict) ==
    IF ~HeadDecodes(jwe) THEN Raise("VerificationError")
    ELSE LET _alg == IF jwe.alg = None THEN JWE_ALG ELSE jwe.alg
         IN IF _alg \in DISABLED_JWT_ALGS THEN Raise("UnsupportedAlgorithm")
            ELSE FactoryDecrypt(jwe, _alg, jwk_dict)

(***************************************************************************)
(* Relying party: stored rows, configuration, the callback in flight       *)
(***************************************************************************)

Providers == {"op1", "op2"}
StateVals == {"s1", "s2"}
Codes == {"c1"}
Verifiers == {"v1", "v2"}
Identities == {"u1", "u2"}

\* bounds of the model: rows the tables may hold
MaxAuthz == 2
MaxTokens == 2

\* the provider's published keys
K1 == [kid |-> "k1", mat |-> "m1", priv |-> FALSE]
K2 == [kid |-> "k2", mat |-> "m2", priv |-> FALSE]
NoJwk == [kid |-> None, mat |-> None, priv |-> FALSE]

\* a compact JWS with a claims payload
Jws(kid, alg, by) == [wf |-> TRUE, form |-> "jws", kid |-> kid, alg |-> alg,
                      body |-> JsonDumps("claims"), by |-> by]
\* a column that holds no token yet
NullToken == [wf |-> FALSE, form |-> "null", kid |-> None, alg |-> None,
              body |-> JsonDumps("empty"), by |-> "bad"]

VARIABLES
    RP_USER_CREATE,  \* settings: create a LocalIdentity when none matches
    rpConf,          \* FederationEntityConfiguration of the relying party is stored
    opConf,          \* jwks keys of the stored openid_provider FederationEntityConfiguration
    tcStore,         \* TrustChain rows, by provider subject
    authzRows,       \* OidcAuthentication rows (PendingAuthentication), in pk order
    tokenRows,       \* OidcAuthenticationToken rows (AuthenticationToken), in pk order
    users,           \* LocalIdentity rows, by their lookup attribute
    session,         \* the identity logged in in the browser session, or None
    bg,              \* the begin-authentication request in flight and its local variables
    cb,              \* the callback request in flight and its local variables
    exchanges,       \* per code, how often the token endpoint was called with it
    lo,              \* the logout request in flight and its local variables
    resp             \* the response last returned

sysVars == <<RP_USER_CREATE, rpConf, opConf, tcStore, authzRows, tokenRows, users,
             session, bg, cb, exchanges, lo, resp>>

vars == <<confVars, joseVars, sysVars>>

\* ---- responses -----------------------------------------------------------
\* kind: "redirect", "success", "rejected" (an error page with a reason), or
\* "error" (an exception left the view: the server's error page)
NoQuery == [error |-> FALSE, state |-> None, code |-> None]
Response(op, kind, reason, q) ==
    [op |-> op, kind |-> kind, reason |-> IF kind = "error" THEN "exception" ELSE reason,
     q |-> q]
NoResponse == Response("none", "none", "none", NoQuery)

\* ---- callback: inputs ----------------------------------------------------
\* the callback query: has an error parameter, state and code (None: absent)
Queries == [error : BOOLEAN, state : StateVals \cup {None}, code : Codes \cup {None}]

\* what the token endpoint may answer: nothing usable, or a token response
AccessCands == {Jws("k1", "RS256", "m1"), Jws("k2", "RS256", "m2"),
                Jws("k1", "RS256", "bad"), Jws("k1", "none", "bad"), OpaqueToken}
IdCands == {Jws("k1", "RS256", "m1"), Jws("k2", "RS256", "m2"),
            Jws("k1", "RS256", "bad")}
FailedTokenReply == [ok |-> FALSE, access_token |-> NullToken, id_token |-> NullToken]
TokenReplies == [ok : {TRUE}, access_token : AccessCands, id_token : IdCands]
                    \cup {FailedTokenReply}

\* what the userinfo endpoint may answer: the claims it carries.
\*   lookup - value of the claim mapped to RP_USER_LOOKUP_FIELD (None: absent)
\*   sub    - the claim mapped to "sub" is present
\*   other  - a claim that RP_ATTR_MAP does not map is present
EmptyUserinfo == [lookup |-> None, sub |-> FALSE, other |-> FALSE]
UserinfoReplies == {EmptyUserinfo,
                    [lookup |-> None, sub |-> FALSE, other |-> TRUE],
                    [lookup |-> None, sub |-> TRUE, other |-> FALSE],
                    [lookup |-> "u1", sub |-> TRUE, other |-> FALSE],
                    [lookup |-> "u2", sub |-> TRUE, other |-> TRUE],
                    [lookup |-> "u2", sub |-> FALSE, other |-> FALSE]}

\* the arguments access_token_request is called with
NoTokenRequest == [redirect_uri |-> None, state |-> None, code |-> None,
                   issuer_id |-> None, code_verifier |-> None]

IdleCallback == [pc |-> "idle", q |-> NoQuery,
                 authz |-> 0, tok |-> 0, jwks |-> <<>>, treq |-> NoTokenRequest,
                 treply |-> FailedTokenReply, ureply |-> EmptyUserinfo]

\* ---- rows ----------------------------------------------------------------
\* OidcAuthentication.objects.create(**authz_entry)
AuthzEntry(state, provider, verifier, redirect_uri, jwks, end_session) ==
    [state |-> state, provider |-> provider, code_verifier |-> verifier,
     redirect_uri |-> redirect_uri, provider_jwks |-> jwks,
     end_session |-> end_session]

\* OidcAuthenticationToken.objects.create(authz_request=authz, code=code)
TokenEntry(authz, code) ==
    [authz |-> authz, code |-> code, access_token |-> NullToken,
     id_token |-> NullToken, user |-> None, logged_out |-> FALSE]

SeqMax(S) == CHOOSE x \in S : \A y \in S : y <= x

\* ---- trust chains and stored configuration -------------------------------
\* a TrustChain row: stored at all, is_active, is_expired, and what its
\* metadata holds: "none" (no metadata), "nokeys" (neither jwks nor jwks_uri),
\* "embedded" (jwks), "uri" (jwks_uri only)
MetaKinds == {"none", "nokeys", "embedded", "uri"}
TrustChains == [present : {TRUE}, active : BOOLEAN, expired : BOOLEAN, meta : MetaKinds]
GoodChain == [present |-> TRUE, active |-> TRUE, expired |-> FALSE, meta |-> "embedded"]

\* the stored openid_provider FederationEntityConfiguration: present, and its jwks keys
OpConfs == {[present |-> TRUE, keys |-> <<K1, K2>>],
            [present |-> TRUE, keys |-> <<K1>>],
            [present |-> FALSE, keys |-> <<>>]}

\* PendingAuthentication rows that begin-authentication has stored
Authz1 == AuthzEntry("s1", "op1", "v1", "r1", <<K1, K2>>, TRUE)
Authz2 == AuthzEntry("s2", "op2", "v2", "r1", <<K1>>, FALSE)
Authz3 == AuthzEntry("s1", "op2", "v2", "r2", <<K1, K2>>, FALSE)
InitialAuthz == {<<Authz1, Authz2>>, <<Authz1, Authz3>>}

\* ---- callback: the code of SpidCieOidcRpCallbackView -----------------------
Outcome(kind, reason) == [kind |-> kind, reason |-> reason]
Continue == Outcome("continue", "none")
Rejected(reason) == Outcome("rejected", reason)
Error(exc) == Outcome("error", exc)

\* OidcAuthentication.objects.filter(state=...) then .last(): the newest row
\* with that state, 0 when the queryset is empty
AuthzByState(rows, state) ==
    LET m == {i \in 1 .. Len(rows) : rows[i].state = state}
    IN IF m = {} THEN 0 ELSE SeqMax(m)

\* mutant: the error parameter is looked at only after the state lookup
CallbackReceiveErrorLate(q, rows, rp) ==
    LET a == AuthzByState(rows, q.state) IN
    IF a = 0 THEN [out |-> Rejected("unknown_state"), authz |-> 0, create |-> FALSE]
    ELSE IF q.code = None
    THEN [out |-> Rejected("missing_code"), authz |-> a, create |-> FALSE]
    ELSE IF q.error
    THEN [out |-> Rejected("provider_error"), authz |-> a, create |-> TRUE]
    ELSE IF ~rp THEN [out |-> Error("DoesNotExist"), authz |-> a, create |-> TRUE]
    ELSE [out |-> Continue, authz |-> a, create |-> TRUE]

\* mutant: a callback without a matching row falls back to the newest row
CallbackReceiveAnyState(q, rows, rp) ==
    IF q.error THEN [out |-> Rejected("provider_error"), authz |-> 0, create |-> FALSE]
    ELSE LET a == IF AuthzByState(rows, q.state) = 0 THEN Len(rows)
                  ELSE AuthzByState(rows, q.state) IN
         IF a = 0 THEN [out |-> Rejected("unknown_state"), authz |-> 0, create |-> FALSE]
         ELSE IF q.code = None
         THEN [out |-> Rejected("missing_code"), authz |-> a, create |-> FALSE]
         ELSE IF ~rp THEN [out |-> Error("DoesNotExist"), authz |-> a, create |-> TRUE]
         ELSE [out |-> Continue, authz |-> a, create |-> TRUE]

\* get(), up to the token request: the outcome, the row found and whether an
\* OidcAuthenticationToken row is created
CallbackReceive(q, rows, rp) ==
    IF q.error THEN [out |-> Rejected("provider_error"), authz |-> 0, create |-> FALSE]
    ELSE LET a == AuthzByState(rows, q.state) IN
         IF a = 0 THEN [out |-> Rejected("unknown_state"), authz |-> 0, create |-> FALSE]
         ELSE IF q.code = None
         THEN [out |-> Rejected("missing_code"), authz |-> a, create |-> FALSE]
         ELSE IF ~rp THEN [out |-> Error("DoesNotExist"), authz |-> a, create |-> TRUE]
         ELSE [out |-> Continue, authz |-> a, create |-> TRUE]

\* self.access_token_request(redirect_uri=authz_data["redirect_uri"], ...,
\* code_verifier=authz_data.get("code_verifier")), authz_data read from authz.data
AccessTokenRequest(authz, code) ==
    [redirect_uri |-> authz.redirect_uri, state |-> authz.state, code |-> code,
     issuer_id |-> authz.provider, code_verifier |-> authz.code_verifier]

\* get_jwk_from_jwt(jwt, provider_jwks): the first key with the header's kid
GetJwkFromJwt(jwt, provider_jwks) ==
    IF ~HeadDecodes(jwt) THEN [exc |-> "MalformedToken", jwk |-> NoJwk]
    ELSE IF jwt.kid = None THEN [exc |-> "KeyError", jwk |-> NoJwk]
    ELSE LET m == {i \in 1 .. Len(provider_jwks) : provider_jwks[i].kid = jwt.kid}
         IN IF m = {} THEN [exc |-> "none", jwk |-> NoJwk]
            ELSE [exc |-> "none",
                  jwk |-> provider_jwks[CHOOSE i \in m : \A j \in m : i <= j]]

\* Python truth value of what verify_jws returned
Falsy(msg) == msg = "empty"

\* get(), from the key lookup to the two verify_jws calls: both calls are made
\* on the access token, the second with the key found for the id token
VerifyTokens(access_token, id_token, jwks) ==
    LET ac == GetJwkFromJwt(access_token, jwks)
        id == GetJwkFromJwt(id_token, jwks)
    IN  IF ac.exc # "none" THEN Error(ac.exc)
        ELSE IF id.exc # "none" THEN Error(id.exc)
        ELSE IF ac.jwk = NoJwk \/ id.jwk = NoJwk THEN Rejected("unknown_signing_key")
        ELSE LET v1 == VerifyJws(access_token, ac.jwk) IN
             IF v1.exc # "none" THEN Error(v1.exc)
             ELSE LET v2 == VerifyJws(access_token, id.jwk) IN
                  IF v2.exc # "none" THEN Error(v2.exc)
                  ELSE IF Falsy(v2.msg) THEN Rejected("invalid_id_token")
                  ELSE Continue

\* the same without the test of the token response
TokenResponseCheckNoFailureTest(token_response, conf) ==
    IF ~conf.present THEN Error("AttributeError")
    ELSE VerifyTokens(token_response.access_token, token_response.id_token, conf.keys)

\* get(), from the token response to the userinfo request
TokenResponseCheck(token_response, conf) ==
    IF ~token_response.ok THEN Rejected("token_exchange_failed")
    ELSE IF ~conf.present THEN Error("AttributeError")
    ELSE VerifyTokens(token_response.access_token, token_response.id_token, conf.keys)

\* process_user_attributes(userinfo, RP_ATTR_MAP, ...): the mapped attributes
NoAttrs == [lookup |-> None, sub |-> FALSE]
ProcessUserAttributes(userinfo) == [lookup |-> userinfo.lookup, sub |-> userinfo.sub]

\* user_reunification(user_attrs, client_conf): the identity, whether it is new
UserReunification(user_attrs, us, create) ==
    IF user_attrs.lookup = None THEN [exc |-> "KeyError", user |-> None, new |-> FALSE]
    ELSE IF user_attrs.lookup \in us
    THEN [exc |-> "none", user |-> user_attrs.lookup, new |-> FALSE]
    ELSE IF create
    THEN IF ~user_attrs.sub THEN [exc |-> "KeyError", user |-> None, new |-> FALSE]
         ELSE [exc |-> "none", user |-> user_attrs.lookup, new |-> TRUE]
    ELSE [exc |-> "none", user |-> None, new |-> FALSE]

\* get(), from the userinfo response to the end
UserinfoCheck(userinfo, us, create) ==
    IF userinfo = EmptyUserinfo
    THEN [out |-> Rejected("userinfo_failed"), user |-> None]
    ELSE LET user_attrs == ProcessUserAttributes(userinfo) IN
         IF user_attrs = NoAttrs THEN [out |-> Rejected("no_attributes"), user |-> None]
         ELSE LET r == UserReunification(user_attrs, us, create) IN
              IF r.exc # "none" THEN [out |-> Error(r.exc), user |-> None]
              ELSE IF r.user = None
              THEN [out |-> Rejected("user_not_found"), user |-> None]
              ELSE [out |-> Outcome("success", "none"), user |-> r.user]

\* ---- callback: steps -------------------------------------------------------
\* the browser is sent back to the redirect URI with query q
CallbackArrives(q) ==
    /\ cb.pc = "idle"
    /\ CallbackReceive(q, authzRows, rpConf).create => Len(tokenRows) < MaxTokens
    /\ cb' = [IdleCallback EXCEPT !.pc = "received", !.q = q]
    /\ resp' = NoResponse
    /\ UNCHANGED <<bg, RP_USER_CREATE, rpConf, opConf, tcStore, authzRows, tokenRows,
                   users, session, exchanges, lo, confVars, joseVars>>

\* get(): from the query to the call of the token endpoint
CallbackGet ==
    /\ cb.pc = "received"
    /\ LET r == CallbackReceive(cb.q, authzRows, rpConf) IN
       /\ tokenRows' = IF r.create
                       THEN Append(tokenRows, TokenEntry(r.authz, cb.q.code))
                       ELSE tokenRows
       /\ IF r.out = Continue
          THEN /\ cb' = [cb EXCEPT !.pc = "token_request", !.authz = r.authz,
                                   !.tok = Len(tokenRows) + 1,
                                   !.treq = AccessTokenRequest(authzRows[r.authz],
                                                               cb.q.code)]
               /\ exchanges' = [exchanges EXCEPT ![cb.q.code] = @ + 1]
               /\ resp' = resp
          ELSE /\ cb' = IdleCallback
               /\ exchanges' = exchanges
               /\ resp' = Response("callback", r.out.kind, r.out.reason, cb.q)
    /\ UNCHANGED <<bg, RP_USER_CREATE, rpConf, opConf, tcStore, authzRows, users,
                   session, lo, confVars, joseVars>>

\* the token endpoint answers
ProviderTokenReply(tr) ==
    /\ cb.pc = "token_request"
    /\ cb' = [cb EXCEPT !.pc = "token_response", !.treply = tr]
    /\ UNCHANGED <<bg, RP_USER_CREATE, rpConf, opConf, tcStore, authzRows, tokenRows,
                   users, session, exchanges, resp, lo, confVars, joseVars>>

\* get(): from the token response to the call of the userinfo endpoint
CallbackTokenResponse ==
    /\ cb.pc = "token_response"
    /\ LET o == TokenResponseCheck(cb.treply, opConf) IN
       IF o = Continue
       THEN /\ tokenRows' = [tokenRows EXCEPT
                               ![cb.tok].access_token = cb.treply.access_token,
                               ![cb.tok].id_token = cb.treply.id_token]
            /\ cb' = [cb EXCEPT !.pc = "userinfo_request", !.jwks = opConf.keys]
            /\ resp' = resp
       ELSE /\ tokenRows' = tokenRows
            /\ cb' = IdleCallback
            /\ resp' = Response("callback", o.kind, o.reason, cb.q)
    /\ UNCHANGED <<bg, RP_USER_CREATE, rpConf, opConf, tcStore, authzRows, users,
                   session, exchanges, lo, confVars, joseVars>>

\* the userinfo endpoint answers
ProviderUserinfoReply(ui) ==
    /\ cb.pc = "userinfo_request"
    /\ cb' = [cb EXCEPT !.pc = "userinfo_response", !.ureply = ui]
    /\ UNCHANGED <<bg, RP_USER_CREATE, rpConf, opConf, tcStore, authzRows, tokenRows,
                   users, session, exchanges, resp, lo, confVars, joseVars>>

\* get(): from the userinfo response to login and the binding of the token
CallbackUserinfoResponse ==
    /\ cb.pc = "userinfo_response"
    /\ LET r == UserinfoCheck(cb.ureply, users, RP_USER_CREATE) IN
       IF r.out.kind = "success"
       THEN /\ users' = users \cup {r.user}
            /\ session' = r.user
            /\ tokenRows' = [tokenRows EXCEPT ![cb.tok].user = r.user]
            /\ resp' = Response("callback", "success", "none", cb.q)
       ELSE /\ UNCHANGED <<users, session, tokenRows>>
            /\ resp' = Response("callback", r.out.kind, r.out.reason, cb.q)
    /\ cb' = IdleCallback
    /\ UNCHANGED <<bg, RP_USER_CREATE, rpConf, opConf, tcStore, authzRows, exchanges,
                   lo, confVars, joseVars>>

\* ---- begin-authentication: the code of SpidCieOidcRp / SpidCieOidcRpBeginView --
\* settings.OIDCFED_TRUST_ANCHORS, settings.OIDCFED_TRUST_ANCHOR; every stored
\* chain is one to the default anchor
DefaultTrustAnchors == {"ta1", "ta2"}
OIDCFED_TRUST_ANCHOR == "ta1"
\* the allowed set as shipped, and one that leaves the default anchor out
TrustAnchorSettings == {DefaultTrustAnchors, {"ta2"}}
\* client_conf["redirect_uris"]
RedirectUris == <<"r1", "r2">>

\* the profiles RP_REQUEST_CLAIM_BY_PROFILE has an entry for
RP_REQUEST_CLAIM_BY_PROFILE == {"spid", "cie"}

\* the begin query: provider, trust_anchor, redirect_uri and profile (None: absent)
BeginQueries == [provider : Providers \cup {None},
                 trust_anchor : {None, "ta2", "tax"},
                 redirect_uri : {None, "r2", "rx"},
                 profile : {None, "px"}]
NoBeginQuery == [provider |-> None, trust_anchor |-> None, redirect_uri |-> None,
                 profile |-> None]

\* jwks_dict: {} (nothing obtained), or a JWKS document with its keys
NoJwksDict == [empty |-> TRUE, keys |-> <<>>]
JwksDoc(keys) == [empty |-> FALSE, keys |-> keys]

NoChain == [present |-> FALSE, active |-> FALSE, expired |-> FALSE, meta |-> "none"]
IdleBegin == [pc |-> "idle", q |-> NoBeginQuery, tc |-> NoChain, jwks |-> NoJwksDict]

\* provider_metadata.get("end_session_endpoint") of the provider's metadata
EndSessionOf(provider) == provider = "op1"

\* TrustChain.objects.filter(sub=..., trust_anchor__sub=...).first()
StoredChain(store, provider, trust_anchor) ==
    IF provider \in Providers /\ trust_anchor = OIDCFED_TRUST_ANCHOR /\ store[provider].present
    THEN store[provider]
    ELSE NoChain

\* mutant: a stored chain is used whatever its is_active says
GetOidcOpNoActiveCheck(q, store) ==
    IF q.provider = None
    THEN [exc |-> "InvalidTrustchain", tc |-> NoChain, refresh |-> FALSE]
    ELSE LET trust_anchor == IF q.trust_anchor = None THEN OIDCFED_TRUST_ANCHOR
                             ELSE q.trust_anchor
         IN IF trust_anchor \notin OIDCFED_TRUST_ANCHORS
            THEN [exc |-> "InvalidTrustchain", tc |-> NoChain, refresh |-> FALSE]
            ELSE LET tc == StoredChain(store, q.provider, trust_anchor) IN
                 IF ~tc.present THEN [exc |-> "none", tc |-> NoChain, refresh |-> FALSE]
                 ELSE IF tc.expired THEN [exc |-> "none", tc |-> tc, refresh |-> TRUE]
                 ELSE [exc |-> "none", tc |-> tc, refresh |-> FALSE]

\* mutant: any trust anchor is taken
GetOidcOpAnyAnchor(q, store) ==
    IF q.provider = None
    THEN [exc |-> "InvalidTrustchain", tc |-> NoChain, refresh |-> FALSE]
    ELSE LET trust_anchor == IF q.trust_anchor = None THEN OIDCFED_TRUST_ANCHOR
                             ELSE q.trust_anchor
             tc == StoredChain(store, q.provider, trust_anchor)
         IN IF ~tc.present THEN [exc |-> "none", tc |-> NoChain, refresh |-> FALSE]
            ELSE IF ~tc.active
            THEN [exc |-> "InvalidTrustchain", tc |-> tc, refresh |-> FALSE]
            ELSE IF tc.expired THEN [exc |-> "none", tc |-> tc, refresh |-> TRUE]
            ELSE [exc |-> "none", tc |-> tc, refresh |-> FALSE]

\* get_oidc_op(request), up to the forced refresh: the exception raised, the
\* chain found, and whether get_or_create_trust_chain(force=True) is called
GetOidcOp(q, store) ==
    IF q.provider = None
    THEN [exc |-> "InvalidTrustchain", tc |-> NoChain, refresh |-> FALSE]
    ELSE LET trust_anchor == IF q.trust_anchor = None THEN OIDCFED_TRUST_ANCHOR
                             ELSE q.trust_anchor
         IN IF trust_anchor \notin OIDCFED_TRUST_ANCHORS
            THEN [exc |-> "InvalidTrustchain", tc |-> NoChain, refresh |-> FALSE]
            ELSE LET tc == StoredChain(store, q.provider, trust_anchor) IN
                 IF ~tc.present THEN [exc |-> "none", tc |-> NoChain, refresh |-> FALSE]
                 ELSE IF ~tc.active
                 THEN [exc |-> "InvalidTrustchain", tc |-> tc, refresh |-> FALSE]
                 ELSE IF tc.expired THEN [exc |-> "none", tc |-> tc, refresh |-> TRUE]
                 ELSE [exc |-> "none", tc |-> tc, refresh |-> FALSE]

\* get_or_create_trust_chain(subject, trust_anchor, force=True): it fails
\* (InvalidTrustchain, the stored chain is left as it is) or stores and returns
\* a fresh validated chain with the metadata it found
RefreshOutcomes == {"fail"} \cup MetaKinds
RefreshedChain(outcome) ==
    [present |-> TRUE, active |-> TRUE, expired |-> FALSE, meta |-> outcome]

\* get_jwks_from_jwks_uri(jwks_uri): {} when the download fails or gives an
\* empty object, else the document downloaded, which may list no key
JwksReplies == {NoJwksDict, JwksDoc(<<>>), JwksDoc(<<K1>>)}
EmbeddedJwks == JwksDoc(<<K1, K2>>)

\* get(), from the chain to the provider keys: the outcome and whether the
\* keys are downloaded from jwks_uri
BeginChecks(tc, rp) ==
    IF ~tc.present THEN [out |-> Rejected("trust_chain_unavailable"), fetch |-> FALSE]
    ELSE IF tc.meta = "none" THEN [out |-> Rejected("metadata_not_found"), fetch |-> FALSE]
    ELSE IF ~rp THEN [out |-> Rejected("missing_configuration"), fetch |-> FALSE]
    ELSE IF tc.meta = "nokeys"
    THEN [out |-> Rejected("invalid_provider_metadata"), fetch |-> FALSE]
    ELSE [out |-> Continue, fetch |-> tc.meta = "uri"]

\* the jwks_dict the view goes on with: the embedded jwks, else the download
JwksDict(tc, downloaded) ==
    IF tc.meta = "embedded" THEN EmbeddedJwks
    ELSE IF tc.meta = "uri" THEN downloaded
    ELSE NoJwksDict

\* mutant: an empty jwks_dict is let through
JwksCheckSkipped(jwks_dict) == Continue

\* if not jwks_dict: the request is rejected
JwksCheck(jwks_dict) ==
    IF jwks_dict.empty THEN Rejected("provider_keys_unavailable") ELSE Continue

\* mutant: the redirect_uri of the request is taken as it comes
RedirectUriUnchecked(q) ==
    IF q.redirect_uri = None THEN RedirectUris[1] ELSE q.redirect_uri

\* the redirect_uri of the request if it is registered, else the first registered
RedirectUri(q) ==
    IF q.redirect_uri \in {RedirectUris[i] : i \in 1 .. Len(RedirectUris)}
    THEN q.redirect_uri
    ELSE RedirectUris[1]

\* claims=RP_REQUEST_CLAIM_BY_PROFILE[request.GET.get("profile", "spid")]
ClaimsByProfile(q) ==
    IF (IF q.profile = None THEN "spid" ELSE q.profile) \in RP_REQUEST_CLAIM_BY_PROFILE
    THEN Continue
    ELSE Error("KeyError")

\* pkce_func(**RP_PKCE_CONF["kwargs"]): the verifier and the challenge made of it
PkceValues(code_verifier) ==
    [code_verifier |-> code_verifier, code_challenge |-> <<"S256", code_verifier>>]

\* authz_data after authz_data.update(pkce_values)
AuthzData(state, redirect_uri, pkce_values) ==
    [state |-> state, redirect_uri |-> redirect_uri,
     code_verifier |-> pkce_values.code_verifier,
     code_challenge |-> pkce_values.code_challenge]

\* dict.pop(k) and dict[k] = v
DictPop(d, k) == [x \in DOMAIN d \ {k} |-> d[x]]
DictPut(d, k, v) == [x \in DOMAIN d \cup {k} |-> IF x = k THEN v ELSE d[x]]

\* mutant: the verifier is left in authz_data
PopCodeVerifierSkipped(authz_data) == authz_data

\* authz_data.pop("code_verifier")
PopCodeVerifier(authz_data) == DictPop(authz_data, "code_verifier")

\* the payload of the signed request object: a copy of authz_data with iss and sub
RequestObject(authz_data) == DictPut(DictPut(authz_data, "iss", "client_id"),
                                     "sub", "client_id")

\* the parameters of the redirect url: authz_data, popped, with the request object
UrlParams(authz_data) ==
    DictPut(PopCodeVerifier(authz_data), "request",
            RequestObject(PopCodeVerifier(authz_data)))

NoParams == [none |-> TRUE]

BeginResponse(kind, reason, q, tc, jwks) ==
    [op |-> "begin", kind |-> kind, reason |-> reason, q |-> q, tc |-> tc, jwks |-> jwks,
     url |-> NoParams]

\* ---- begin-authentication: steps -------------------------------------------
BeginArrives(q) ==
    /\ bg.pc = "idle"
    /\ Len(authzRows) < MaxAuthz
    /\ bg' = [IdleBegin EXCEPT !.pc = "received", !.q = q]
    /\ resp' = NoResponse
    /\ UNCHANGED <<RP_USER_CREATE, rpConf, opConf, tcStore, authzRows, tokenRows,
                   users, session, cb, exchanges, lo, confVars, joseVars>>

\* get(), from the chain in hand (tc) on: rejected, or on to the provider keys
BeginWithChain(tc) ==
    LET c == BeginChecks(tc, rpConf) IN
    IF c.out # Continue
    THEN /\ bg' = IdleBegin
         /\ resp' = BeginResponse(c.out.kind, c.out.reason, bg.q, tc, NoJwksDict)
    ELSE /\ bg' = [bg EXCEPT !.pc = IF c.fetch THEN "jwks_request" ELSE "build",
                             !.tc = tc, !.jwks = JwksDict(tc, NoJwksDict)]
         /\ resp' = resp

\* get(): get_oidc_op up to the refresh, and on when none is needed
BeginGet ==
    /\ bg.pc = "received"
    /\ LET r == GetOidcOp(bg.q, tcStore) IN
       IF r.exc # "none"
       THEN /\ bg' = IdleBegin
            /\ resp' = BeginResponse("rejected", "invalid_trustchain", bg.q, r.tc, NoJwksDict)
       ELSE IF r.refresh
       THEN /\ bg' = [bg EXCEPT !.pc = "refresh_request", !.tc = r.tc]
            /\ resp' = resp
       ELSE BeginWithChain(r.tc)
    /\ UNCHANGED <<RP_USER_CREATE, rpConf, opConf, tcStore, authzRows, tokenRows,
                   users, session, cb, exchanges, lo, confVars, joseVars>>

\* get_or_create_trust_chain(force=True) ends, and get() goes on
BeginRefreshed(outcome) ==
    /\ bg.pc = "refresh_request"
    /\ IF outcome = "fail"
       THEN /\ tcStore' = tcStore
            /\ bg' = IdleBegin
            /\ resp' = BeginResponse("rejected", "invalid_trustchain", bg.q, bg.tc, NoJwksDict)
       ELSE /\ tcStore' = [tcStore EXCEPT ![bg.q.provider] = RefreshedChain(outcome)]
            /\ BeginWithChain(RefreshedChain(outcome))
    /\ UNCHANGED <<RP_USER_CREATE, rpConf, opConf, authzRows, tokenRows,
                   users, session, cb, exchanges, lo, confVars, joseVars>>

\* the download from jwks_uri ends
JwksFetched(downloaded) ==
    /\ bg.pc = "jwks_request"
    /\ bg' = [bg EXCEPT !.pc = "build", !.jwks = JwksDict(bg.tc, downloaded)]
    /\ UNCHANGED <<RP_USER_CREATE, rpConf, opConf, tcStore, authzRows, tokenRows,
                   users, session, cb, exchanges, resp, lo, confVars, joseVars>>

\* get(), from the provider keys to the redirect; state and PKCE verifier are
\* drawn at random
BeginBuild(state, code_verifier) ==
    /\ bg.pc = "build"
    /\ IF JwksCheck(bg.jwks) # Continue
       THEN /\ authzRows' = authzRows
            /\ resp' = BeginResponse("rejected", JwksCheck(bg.jwks).reason, bg.q,
                                     bg.tc, bg.jwks)
       ELSE IF ClaimsByProfile(bg.q) # Continue
       THEN /\ authzRows' = authzRows
            /\ resp' = BeginResponse("error", "exception", bg.q, bg.tc, bg.jwks)
       ELSE LET authz_data == AuthzData(state, RedirectUri(bg.q),
                                        PkceValues(code_verifier)) IN
            /\ authzRows' = Append(authzRows,
                                   AuthzEntry(authz_data.state, bg.q.provider,
                                              authz_data.code_verifier,
                                              authz_data.redirect_uri, bg.jwks.keys,
                                              EndSessionOf(bg.q.provider)))
            /\ resp' = [BeginResponse("redirect", "none", bg.q, bg.tc, bg.jwks)
                           EXCEPT !.url = UrlParams(authz_data)]
    /\ bg' = IdleBegin
    /\ UNCHANGED <<RP_USER_CREATE, rpConf, opConf, tcStore, tokenRows,
                   users, session, cb, exchanges, lo, confVars, joseVars>>

\* ---- logout: the code of oidc_rpinitiated_logout ------------------------------
IdleLogout == [pc |-> "idle", user |-> None, authz |-> 0, end_session |-> FALSE]

\* settings.LOGOUT_REDIRECT_URL, and the end-session url with its id_token_hint
DefaultLogoutUrl == [to |-> "LOGOUT_REDIRECT_URL", provider |-> None,
                     id_token_hint |-> NullToken]
EndSessionUrl(provider, id_token) ==
    [to |-> "end_session_endpoint", provider |-> provider, id_token_hint |-> id_token]
NoUrl == [to |-> None, provider |-> None, id_token_hint |-> NullToken]

LogoutResponse(kind, reason, url) ==
    [op |-> "logout", kind |-> kind, reason |-> reason, q |-> NoQuery, url |-> url]

\* OidcAuthenticationToken.objects.filter(user=...).filter(logged_out empty or null)
LiveTokens(rows, user) ==
    {i \in 1 .. Len(rows) : rows[i].user = user /\ ~rows[i].logged_out}

\* auth_tokens.first(): the oldest instead of the most recent token
FirstLiveToken(rows, user) ==
    IF LiveTokens(rows, user) = {} THEN 0
    ELSE CHOOSE i \in LiveTokens(rows, user) : \A j \in LiveTokens(rows, user) : i <= j

\* auth_tokens.last(): the row of the highest pk, 0 for None
LastLiveToken(rows, user) ==
    IF LiveTokens(rows, user) = {} THEN 0 ELSE SeqMax(LiveTokens(rows, user))

\* ---- logout: steps -----------------------------------------------------------
\* the request arrives; login_required lets only an authenticated user through
LogoutArrives ==
    /\ lo.pc = "idle"
    /\ IF session = None
       THEN /\ lo' = lo
            /\ resp' = LogoutResponse("redirect", "login_required", NoUrl)
       ELSE /\ lo' = [IdleLogout EXCEPT !.pc = "received", !.user = session]
            /\ resp' = NoResponse
    /\ UNCHANGED <<RP_USER_CREATE, rpConf, opConf, tcStore, authzRows, tokenRows, users,
                   session, bg, cb, exchanges, confVars, joseVars>>

\* lines 451-456: the most recent live token, its authz and the end-session url;
\* auth_tokens.last() is None when there is no live token
LogoutLookup ==
    /\ lo.pc = "received"
    /\ LET t == LastLiveToken(tokenRows, lo.user) IN
       IF t = 0
       THEN /\ lo' = IdleLogout
            /\ resp' = LogoutResponse("error", "AttributeError", NoUrl)
       ELSE /\ lo' = [lo EXCEPT !.pc = "found", !.authz = tokenRows[t].authz,
                                !.end_session = authzRows[tokenRows[t].authz].end_session]
            /\ resp' = resp
    /\ UNCHANGED <<RP_USER_CREATE, rpConf, opConf, tcStore, authzRows, tokenRows, users,
                   session, bg, cb, exchanges, confVars, joseVars>>

\* line 459: logout(request)
LogoutLocal ==
    /\ lo.pc = "found"
    /\ session' = None
    /\ lo' = [lo EXCEPT !.pc = "logged_out"]
    /\ UNCHANGED <<RP_USER_CREATE, rpConf, opConf, tcStore, authzRows, tokenRows, users,
                   bg, cb, exchanges, resp, confVars, joseVars>>

\* lines 461-469: the redirect, and the logout timestamp of the token
LogoutFinish ==
    /\ lo.pc = "logged_out"
    /\ IF ~lo.end_session
       THEN /\ tokenRows' = tokenRows
            /\ resp' = LogoutResponse("redirect", "none", DefaultLogoutUrl)
       ELSE LET t == LastLiveToken(tokenRows, lo.user) IN
            /\ tokenRows' = [tokenRows EXCEPT ![t].logged_out = TRUE]
            /\ resp' = LogoutResponse("redirect", "none",
                                      EndSessionUrl(authzRows[lo.authz].provider,
                                                    tokenRows[t].id_token))
    /\ lo' = IdleLogout
    /\ UNCHANGED <<RP_USER_CREATE, rpConf, opConf, tcStore, authzRows, users,
                   session, bg, cb, exchanges, confVars, joseVars>>

\* ---- the relying party serving callbacks -----------------------------------
JoseIdle ==
    /\ jtok = OpaqueToken
    /\ jkey = K1
    /\ jorigin = [op |-> "received", payload |-> None, key |-> None, alg |-> None]
    /\ jres = [op |-> "none", exc |-> "none", msg |-> None, crypto |-> FALSE]
    /\ jhead = IdleHead

ConfDefault ==
    /\ DISABLED_JWT_ALGS = DefaultDisabledAlgs
    /\ JWE_ALG = DefaultJweAlg
    /\ OIDCFED_TRUST_ANCHORS = DefaultTrustAnchors

\* the relying party with nothing stored and nothing in flight
SysIdle ==
    /\ RP_USER_CREATE = TRUE
    /\ rpConf = TRUE
    /\ opConf = [present |-> TRUE, keys |-> <<K1, K2>>]
    /\ tcStore = [p \in Providers |-> GoodChain]
    /\ authzRows = <<>>
    /\ tokenRows = <<>>
    /\ users = {}
    /\ session = None
    /\ bg = IdleBegin
    /\ cb = IdleCallback
    /\ exchanges = [c \in Codes |-> 0]
    /\ lo = IdleLogout
    /\ resp = NoResponse

\* PendingAuthentication rows are stored, so the relying party's configuration,
\* without which begin-authentication stores none, is there
Init ==
    /\ ConfDefault
    /\ JoseIdle
    /\ RP_USER_CREATE \in BOOLEAN
    /\ rpConf = TRUE
    /\ opConf \in OpConfs
    /\ tcStore = [p \in Providers |-> GoodChain]
    /\ authzRows \in InitialAuthz
    /\ tokenRows = <<>>
    /\ users = {"u1"}
    /\ session = None
    /\ bg = IdleBegin
    /\ cb = IdleCallback
    /\ exchanges = [c \in Codes |-> 0]
    /\ lo = IdleLogout
    /\ resp = NoResponse

Next ==
    \/ \E q \in Queries : CallbackArrives(q)
    \/ CallbackGet
    \/ \E tr \in TokenReplies : ProviderTokenReply(tr)
    \/ CallbackTokenResponse
    \/ \E ui \in UserinfoReplies : ProviderUserinfoReply(ui)
    \/ CallbackUserinfoResponse

Spec == Init /\ [][Next]_vars

\* ---- the relying party serving begin-authentication -------------------------
\* a chain for op1 in any condition, none for op2
BeginInit ==
    /\ DISABLED_JWT_ALGS = DefaultDisabledAlgs
    /\ JWE_ALG = DefaultJweAlg
    /\ OIDCFED_TRUST_ANCHORS \in TrustAnchorSettings
    /\ JoseIdle
    /\ RP_USER_CREATE = TRUE
    /\ rpConf \in BOOLEAN
    /\ opConf = [present |-> TRUE, keys |-> <<K1, K2>>]
    /\ tcStore \in [Providers -> TrustChains \cup {NoChain}]
    /\ tcStore["op2"] = NoChain
    /\ authzRows = <<>>
    /\ tokenRows = <<>>
    /\ users = {"u1"}
    /\ session = None
    /\ bg = IdleBegin
    /\ cb = IdleCallback
    /\ exchanges = [c \in Codes |-> 0]
    /\ lo = IdleLogout
    /\ resp = NoResponse

BeginNext ==
    \/ \E q \in BeginQueries : BeginArrives(q)
    \/ BeginGet
    \/ \E o \in RefreshOutcomes : BeginRefreshed(o)
    \/ \E d \in JwksReplies : JwksFetched(d)
    \/ \E st \in StateVals : BeginBuild(st, "v1")

SpecBegin == BeginInit /\ [][BeginNext]_vars

\* ---- the relying party serving logout ----------------------------------------
\* AuthenticationToken rows as callbacks leave them: unbound, or bound to an
\* identity with both tokens saved; only a token of a provider with an
\* end-session endpoint was ever marked as logged out. The view is behind
\* login_required only: the identity may be logged in with no token of its own
LogoutTokenRows ==
    {TokenEntry(a, "c1") : a \in {1, 2}}
    \cup {[TokenEntry(al[1], "c1") EXCEPT !.access_token = Jws("k1", "RS256", "m1"),
                                          !.id_token = it, !.user = u,
                                          !.logged_out = al[2]] :
            al \in {<<1, FALSE>>, <<1, TRUE>>, <<2, FALSE>>},
            it \in {Jws("k1", "RS256", "m1"), Jws("k2", "RS256", "m2")},
            u \in Identities}

LogoutInit ==
    /\ ConfDefault
    /\ JoseIdle
    /\ RP_USER_CREATE = TRUE
    /\ rpConf = TRUE
    /\ opConf = [present |-> TRUE, keys |-> <<K1, K2>>]
    /\ tcStore = [p \in Providers |-> GoodChain]
    /\ authzRows = <<Authz1, Authz2>>
    /\ tokenRows \in UNION {[1 .. n -> LogoutTokenRows] : n \in 0 .. MaxTokens}
    /\ users = Identities
    /\ session \in Identities \cup {None}
    /\ bg = IdleBegin
    /\ cb = IdleCallback
    /\ exchanges = [c \in Codes |-> Len(tokenRows)]
    /\ lo = IdleLogout
    /\ resp = NoResponse

LogoutNext ==
    \/ LogoutArrives
    \/ LogoutLookup
    \/ LogoutLocal
    \/ LogoutFinish

SpecLogout == LogoutInit /\ [][LogoutNext]_vars

\* ---- the relying party serving a logout while callbacks are served -----------
\* callbacks that carry a state and no error; a token response whose two tokens
\* are signed by the same provider key, or none; userinfo of either identity,
\* or none
RaceQueries == {q \in Queries : ~q.error /\ q.state # None}
RaceTokenReplies ==
    {FailedTokenReply,
     [ok |-> TRUE, access_token |-> Jws("k2", "RS256", "m2"),
      id_token |-> Jws("k2", "RS256", "m2")]}
RaceUserinfoReplies == {EmptyUserinfo,
                        [lookup |-> "u1", sub |-> TRUE, other |-> FALSE],
                        [lookup |-> "u2", sub |-> TRUE, other |-> FALSE]}

\* an identity is logged in and holds a live token of its flow with op1 or
\* with op2; both PendingAuthentication rows are stored
RaceInit ==
    /\ ConfDefault
    /\ JoseIdle
    /\ RP_USER_CREATE = TRUE
    /\ rpConf = TRUE
    /\ opConf = [present |-> TRUE, keys |-> <<K1, K2>>]
    /\ tcStore = [p \in Providers |-> GoodChain]
    /\ authzRows = <<Authz1, Authz2>>
    /\ \E a \in {1, 2} :
          tokenRows = <<[TokenEntry(a, "c1") EXCEPT
                           !.access_token = Jws("k1", "RS256", "m1"),
                           !.id_token = Jws("k1", "RS256", "m1"),
                           !.user = "u1"]>>
    /\ users = Identities
    /\ session = "u1"
    /\ bg = IdleBegin
    /\ cb = IdleCallback
    /\ exchanges = [c \in Codes |-> 1]
    /\ lo = IdleLogout
    /\ resp = NoResponse

RaceNext ==
    \/ LogoutArrives
    \/ LogoutLookup
    \/ LogoutLocal
    \/ LogoutFinish
    \/ \E q \in RaceQueries : CallbackArrives(q)
    \/ CallbackGet
    \/ \E tr \in RaceTokenReplies : ProviderTokenReply(tr)
    \/ CallbackTokenResponse
    \/ \E ui \in RaceUserinfoReplies : ProviderUserinfoReply(ui)
    \/ CallbackUserinfoResponse

SpecLogoutRace == RaceInit /\ [][RaceNext]_vars

\* ---- the relying party serving whole flows: begin, then the callback --------
\* begin requests for op1 with nothing else in the query; a chain refreshed or
\* not, keys embedded or downloaded; callbacks that carry a state and no error;
\* a usable token response and userinfo, or none
FlowBeginQueries == {[NoBeginQuery EXCEPT !.provider = "op1"]}
FlowRefreshOutcomes == {"fail", "embedded"}
FlowJwksReplies == {NoJwksDict, JwksDoc(<<K1>>)}
FlowQueries == {q \in Queries : ~q.error /\ q.state # None}
FlowTokenReplies ==
    {FailedTokenReply,
     [ok |-> TRUE, access_token |-> Jws("k1", "RS256", "m1"),
      id_token |-> Jws("k1", "RS256", "m1")]}
FlowUserinfoReplies == {EmptyUserinfo, [lookup |-> "u1", sub |-> TRUE, other |-> FALSE]}

FlowInit ==
    /\ ConfDefault
    /\ JoseIdle
    /\ RP_USER_CREATE = TRUE
    /\ rpConf = TRUE
    /\ opConf = [present |-> TRUE, keys |-> <<K1, K2>>]
    /\ tcStore \in [Providers -> TrustChains \cup {NoChain}]
    /\ tcStore["op1"].present /\ tcStore["op1"].active /\ tcStore["op1"].meta = "uri"
    /\ tcStore["op2"] = NoChain
    /\ authzRows = <<>>
    /\ tokenRows = <<>>
    /\ users = {"u1"}
    /\ session = None
    /\ bg = IdleBegin
    /\ cb = IdleCallback
    /\ exchanges = [c \in Codes |-> 0]
    /\ lo = IdleLogout
    /\ resp = NoResponse

FlowNext ==
    \/ \E q \in FlowBeginQueries : BeginArrives(q)
    \/ BeginGet
    \/ \E o \in FlowRefreshOutcomes : BeginRefreshed(o)
    \/ \E d \in FlowJwksReplies : JwksFetched(d)
    \/ \E st \in StateVals, v \in Verifiers : BeginBuild(st, v)
    \/ \E q \in FlowQueries : CallbackArrives(q)
    \/ CallbackGet
    \/ \E tr \in FlowTokenReplies : ProviderTokenReply(tr)
    \/ CallbackTokenResponse
    \/ \E ui \in FlowUserinfoReplies : ProviderUserinfoReply(ui)
    \/ CallbackUserinfoResponse

SpecFlow == FlowInit /\ [][FlowNext]_vars

(***************************************************************************)
(* Properties of the callback flow (checked under Spec)                    *)
(***************************************************************************)

\* the token's signature verifies against the provider key with its header's kid
VerifiesAgainstItsKey(jwt, keys) ==
    LET k == GetJwkFromJwt(jwt, keys)
    IN k.exc = "none" /\ k.jwk # NoJwk /\ VerifyJws(jwt, k.jwk).exc = "none"

\* a provider key has the kid of the token's header, and verification with it fails
FailsAgainstItsKey(jwt, keys) ==
    LET k == GetJwkFromJwt(jwt, keys)
    IN k.exc = "none" /\ k.jwk # NoJwk /\ VerifyJws(jwt, k.jwk).exc # "none"

Bound(rows) == {i \in 1 .. Len(rows) : rows[i].user # None}

\* the handler of the callback in flight took a step
CallbackStep == cb' # cb /\ cb.pc \in {"received", "token_response", "userinfo_response"}

\* C1 (as claimed): a flow whose ID token does not verify against the provider
\* key with its kid is rejected: no AuthenticationToken holding such an ID
\* token is ever bound to a LocalIdentity, whatever the access token is
C1_BadIdTokenNeverBound ==
    \A i \in Bound(tokenRows) : VerifiesAgainstItsKey(tokenRows[i].id_token, opConf.keys)

\* C2 (as claimed): a callback whose state matches no stored
\* PendingAuthentication is rejected as unknown state, creates no
\* AuthenticationToken row and makes no outbound call
C2_UnknownStateAlwaysUnknownState ==
    [][(cb.pc = "received" /\ CallbackStep /\ AuthzByState(authzRows, cb.q.state) = 0)
        => /\ resp' = Response("callback", "rejected", "unknown_state", cb.q)
           /\ tokenRows' = tokenRows /\ exchanges' = exchanges /\ cb'.pc = "idle"]_vars

\* C2 (amended): a callback whose state matches no stored PendingAuthentication
\* is rejected, creates no AuthenticationToken row and makes no outbound call;
\* the rejection is unknown state when the query carries no error parameter
\* and provider error when it does
C2_UnknownStateRejected ==
    [][(cb.pc = "received" /\ CallbackStep /\ AuthzByState(authzRows, cb.q.state) = 0)
        => /\ resp' = Response("callback", "rejected",
                               IF cb.q.error THEN "provider_error" ELSE "unknown_state",
                               cb.q)
           /\ tokenRows' = tokenRows /\ exchanges' = exchanges /\ cb'.pc = "idle"]_vars

\* C2 witness: a callback with a code and no state at all was rejected as unknown
\* state while PendingAuthentication rows are stored
C2_Witness ==
    /\ resp = Response("callback", "rejected", "unknown_state", resp.q)
    /\ resp.q.state = None /\ resp.q.code # None
    /\ Len(authzRows) > 0 /\ tokenRows = <<>>

\* C3: a callback whose query has an error parameter goes to
\* REJECTED(provider_error) whatever state and code it carries: no
\* AuthenticationToken row, no outbound call, no session
C3_ProviderErrorRejected ==
    [][(cb.pc = "received" /\ CallbackStep /\ cb.q.error)
        => /\ resp' = Response("callback", "rejected", "provider_error", cb.q)
           /\ tokenRows' = tokenRows /\ exchanges' = exchanges /\ cb'.pc = "idle"
           /\ session' = session]_vars

\* C3 witness: rejected as provider error although the state matched a stored
\* PendingAuthentication and the code was present
C3_Witness ==
    /\ resp = Response("callback", "rejected", "provider_error", resp.q)
    /\ resp.q.error /\ resp.q.code # None
    /\ AuthzByState(authzRows, resp.q.state) > 0
    /\ tokenRows = <<>> /\ session = None

\* C4 (as claimed): the token endpoint is called at most once per code, at most
\* one AuthenticationToken row carries a code, and each PendingAuthentication
\* has at most one AuthenticationToken
C4_CodeExchangedAtMostOnce ==
    /\ \A c \in Codes :
          /\ exchanges[c] <= 1
          /\ Cardinality({i \in 1 .. Len(tokenRows) : tokenRows[i].code = c}) <= 1
    /\ \A a \in 1 .. Len(authzRows) :
          Cardinality({i \in 1 .. Len(tokenRows) : tokenRows[i].authz = a}) <= 1

\* the gates of the state machine, read off the callback in flight just before
\* it logs the user in; idVerified is the TOKENS_VERIFIED gate
GatesPassed(idVerified) ==
    /\ cb.pc = "userinfo_response"
    /\ cb.authz \in 1 .. Len(authzRows) /\ authzRows[cb.authz].state = cb.q.state
    /\ cb.q.code # None /\ tokenRows[cb.tok].code = cb.q.code
    /\ cb.treply.ok
    /\ idVerified
    /\ cb.ureply # EmptyUserinfo
    /\ ProcessUserAttributes(cb.ureply) # NoAttrs
    /\ session' \in users' /\ Bound(tokenRows') = Bound(tokenRows) \cup {cb.tok}

\* a step that establishes a session or binds a token, and a step that rejects
Establishes == session' \notin {session, None} \/ Bound(tokenRows') # Bound(tokenRows)
Rejects == CallbackStep /\ resp'.kind = "rejected"

\* C5 (as claimed): session and binding come only after every gate passed, in
\* order (pending found, code present, token response, tokens verified,
\* userinfo non-empty, attributes mapped, identity found or created); a
\* rejected flow establishes no session and binds no token
C5_OrderedGates ==
    [][/\ Establishes =>
            GatesPassed(/\ VerifiesAgainstItsKey(cb.treply.id_token, cb.jwks)
                        /\ GetJwkFromJwt(cb.treply.access_token, cb.jwks).jwk # NoJwk)
       /\ Rejects => (session' = session /\ Bound(tokenRows') = Bound(tokenRows))]_vars

\* the same with the TOKENS_VERIFIED gate as the code has it (both verify_jws
\* calls on the access token): this much of C5 holds
OrderedGatesAsCoded ==
    [][/\ Establishes =>
            GatesPassed(VerifyTokens(cb.treply.access_token, cb.treply.id_token,
                                     cb.jwks) = Continue)
       /\ Rejects => (session' = session /\ Bound(tokenRows') = Bound(tokenRows))]_vars

\* verification of the access token fails: it is opaque, or its signature does
\* not verify against the provider key with its kid
AccessTokenFails(jwt, keys) == ~HeadDecodes(jwt) \/ FailsAgainstItsKey(jwt, keys)

\* C6 (as claimed): a token response whose access token fails verification
\* while its ID token verifies is not rejected for that and goes on to userinfo
C6_AccessTokenFailureNotFatal ==
    [][(/\ cb.pc = "token_response" /\ CallbackStep
        /\ cb.treply.ok /\ opConf.present
        /\ VerifiesAgainstItsKey(cb.treply.id_token, opConf.keys)
        /\ AccessTokenFails(cb.treply.access_token, opConf.keys))
        => cb'.pc = "userinfo_request"]_vars

\* the provider JWKS snapshot of the PendingAuthentication of the callback
SnapshotOf(c) == authzRows[c.authz].provider_jwks
\* the snapshot holds a key with the kid of the token's header
InSnapshot(jwt, snap) ==
    HeadDecodes(jwt) /\ \E i \in 1 .. Len(snap) : snap[i].kid = jwt.kid

\* C17 (as claimed): the callback verifies the tokens with the provider JWKS
\* snapshot of the flow's PendingAuthentication, whatever provider
\* configuration is stored by then: a flow goes on to userinfo only when the
\* snapshot has the keys of both tokens, and a JWT signed by a key outside the
\* snapshot is rejected as unknown signing key
C17_SnapshotKeysVerify ==
    [][(cb.pc = "token_response" /\ CallbackStep /\ cb.treply.ok)
        => /\ cb'.pc = "userinfo_request"
                => /\ InSnapshot(cb.treply.access_token, SnapshotOf(cb))
                   /\ InSnapshot(cb.treply.id_token, SnapshotOf(cb))
           /\ (/\ HeadDecodes(cb.treply.access_token)
               /\ ~InSnapshot(cb.treply.id_token, SnapshotOf(cb)))
                => resp' = Response("callback", "rejected", "unknown_signing_key",
                                    cb.q)]_vars

\* how far get() has come: the calls of the two endpoints are its positions
PcRank(pc) ==
    CASE pc = "idle" -> 0
      [] pc = "received" -> 1
      [] pc = "token_request" -> 2
      [] pc = "token_response" -> 3
      [] pc = "userinfo_request" -> 4
      [] pc = "userinfo_response" -> 5

\* C19: within one callback execution the token endpoint is called at most
\* once and the userinfo endpoint at most once (the execution only moves
\* forward, one position at a time, or ends; it calls the token endpoint only
\* out of the received query, counting one exchange of the code, and the
\* userinfo endpoint only out of the token response); a failed token response
\* and an empty userinfo response end the execution at once in the rejections
\* token_exchange_failed and userinfo_failed, with no other call and nothing
\* written
C19_OneCallEachNoRetry ==
    [][/\ cb'.pc # cb.pc
            => \/ cb'.pc = "idle"
               \/ PcRank(cb'.pc) = PcRank(cb.pc) + 1
       /\ (cb'.pc = "token_request" /\ cb.pc # "token_request")
            => /\ cb.pc = "received"
               /\ exchanges' = [exchanges EXCEPT ![cb.q.code] = @ + 1]
       /\ exchanges' # exchanges => (cb.pc = "received" /\ cb'.pc = "token_request")
       /\ (cb'.pc = "userinfo_request" /\ cb.pc # "userinfo_request")
            => (cb.pc = "token_response" /\ cb.treply.ok)
       /\ (cb.pc = "token_response" /\ CallbackStep /\ ~cb.treply.ok)
            => /\ cb' = IdleCallback
               /\ resp' = Response("callback", "rejected", "token_exchange_failed",
                                   cb.q)
               /\ UNCHANGED <<tokenRows, users, session, exchanges>>
       /\ (cb.pc = "userinfo_response" /\ CallbackStep /\ cb.ureply = EmptyUserinfo)
            => /\ cb' = IdleCallback
               /\ resp' = Response("callback", "rejected", "userinfo_failed", cb.q)
               /\ UNCHANGED <<tokenRows, users, session, exchanges>>]_vars

\* an execution that called both endpoints once and ended on the empty userinfo
\* response
C19_Witness ==
    /\ cb.pc = "idle"
    /\ resp = Response("callback", "rejected", "userinfo_failed", resp.q)
    /\ resp.q.code # None
    /\ exchanges[resp.q.code] = 1

\* C20 (as claimed): identity reunification, for mapped attributes that carry
\* the lookup attribute: a LocalIdentity with that value exists - it is the one
\* logged in and no identity is created; none exists and creation is enabled -
\* exactly one identity, with that value, is created and logged in; none exists
\* and creation is disabled - the flow is rejected as user_not_found, the
\* identities are unchanged and no session is established
C20_IdentityReunification ==
    [][(cb.pc = "userinfo_response" /\ CallbackStep /\ cb.ureply.lookup # None)
        => LET v == cb.ureply.lookup IN
           /\ v \in users
                => /\ users' = users
                   /\ session' = v
                   /\ resp'.kind = "success"
           /\ (v \notin users /\ RP_USER_CREATE)
                => /\ users' = users \cup {v}
                   /\ session' = v
                   /\ resp'.kind = "success"
           /\ (v \notin users /\ ~RP_USER_CREATE)
                => /\ resp' = Response("callback", "rejected", "user_not_found", cb.q)
                   /\ users' = users
                   /\ session' = session]_vars

(***************************************************************************)
(* Properties of begin-authentication (checked under SpecBegin)            *)
(***************************************************************************)

\* the handler of the begin request in flight took a step
BeginStep == bg' # bg /\ bg.pc \in {"received", "refresh_request", "build"}

\* C7: begin-authentication never redirects when the provider JWKS cannot be
\* obtained (no embedded jwks and the download failed or was empty, or neither
\* field in the metadata): the request is rejected and no
\* PendingAuthentication is persisted
C7_NoRedirectWithoutJwks ==
    [][(BeginStep /\ resp'.op = "begin" /\ resp'.jwks.empty)
        => (resp'.kind = "rejected" /\ authzRows' = authzRows)]_vars

\* C7 witness: the metadata had only a jwks_uri, the download gave nothing, and
\* the request was rejected with nothing persisted
C7_Witness ==
    /\ resp.op = "begin" /\ resp.kind = "rejected"
    /\ resp.reason = "provider_keys_unavailable"
    /\ resp.tc.meta = "uri" /\ resp.jwks = NoJwksDict /\ authzRows = <<>>

\* the trust anchor of the request, the configured default when it names none
AnchorOf(q) == IF q.trust_anchor = None THEN OIDCFED_TRUST_ANCHOR ELSE q.trust_anchor

\* the chain stored for the provider and trust anchor of the request
StoredChainOf(q) == StoredChain(tcStore, q.provider, AnchorOf(q))

C13_BeginFailuresAreRejections ==
    [][(BeginStep /\ bg'.pc = "idle")
        => IF authzRows' = authzRows THEN resp'.kind = "rejected"
           ELSE resp'.kind = "redirect"]_vars

\* C14: the resolver fails with InvalidTrustchain when the provider is absent
\* or the trust anchor (of the request, or the default) is not an allowed one,
\* with no chain looked up and no refresh; begin-authentication renders a
\* rejection, persists no PendingAuthentication and does not redirect
C14_MissingProviderOrUnallowedAnchor ==
    [][(/\ bg.pc = "received" /\ BeginStep
        /\ (bg.q.provider = None \/ AnchorOf(bg.q) \notin OIDCFED_TRUST_ANCHORS))
        => /\ GetOidcOp(bg.q, tcStore) =
                [exc |-> "InvalidTrustchain", tc |-> NoChain, refresh |-> FALSE]
           /\ resp' = BeginResponse("rejected", "invalid_trustchain", bg.q, NoChain,
                                    NoJwksDict)
           /\ bg'.pc = "idle" /\ tcStore' = tcStore /\ authzRows' = authzRows]_vars

\* C14 witness: the request named no trust anchor, the default is not an
\* allowed one, and a usable chain for the provider was stored
C14_Witness ==
    /\ resp.op = "begin" /\ resp.kind = "rejected" /\ resp.reason = "invalid_trustchain"
    /\ resp.q.provider = "op1" /\ resp.q.trust_anchor = None
    /\ OIDCFED_TRUST_ANCHOR \notin OIDCFED_TRUST_ANCHORS
    /\ tcStore["op1"].present /\ tcStore["op1"].active /\ ~tcStore["op1"].expired
    /\ tcStore["op1"].meta = "embedded"
    /\ resp.tc = NoChain /\ authzRows = <<>>

\* C15 (as claimed): no two stored PendingAuthentication rows have the same
\* state. The view draws the state at random and tests nothing (lines 187,
\* 222); with the draw taken as a free choice two rows can share a state
C15_StateUnique ==
    \A i, j \in 1 .. Len(authzRows) :
        authzRows[i].state = authzRows[j].state => i = j

\* the relying party's registered redirect URIs
Registered == {RedirectUris[i] : i \in 1 .. Len(RedirectUris)}

\* C21: whatever redirect_uri a begin request carries (absent, registered or
\* not), the redirect URI of the PendingAuthentication it persists, of the
\* signed request object and of the redirect url is one and the same registered
\* redirect URI: the requested one when that is registered, the first
\* registered one otherwise
C21_RedirectUriRegistered ==
    [][(BeginStep /\ resp'.kind = "redirect")
        => /\ Len(authzRows') = Len(authzRows) + 1
           /\ LET row == authzRows'[Len(authzRows')]
                  uri == row.redirect_uri
              IN /\ uri \in Registered
                 /\ resp'.url.redirect_uri = uri
                 /\ resp'.url.request.redirect_uri = uri
                 /\ bg.q.redirect_uri \in Registered => uri = bg.q.redirect_uri
                 /\ bg.q.redirect_uri \notin Registered => uri = RedirectUris[1]]_vars

\* a begin request with an unregistered redirect_uri was answered with a
\* redirect that carries the first registered one
C21_Witness ==
    /\ resp.op = "begin" /\ resp.kind = "redirect"
    /\ Len(authzRows) > 0
    /\ resp.q.redirect_uri = "rx"
    /\ resp.url.redirect_uri = RedirectUris[1]
    /\ resp.url.request.redirect_uri = RedirectUris[1]
    /\ authzRows[Len(authzRows)].redirect_uri = RedirectUris[1]

(***************************************************************************)
(* Properties of whole flows (checked under SpecFlow)                      *)
(***************************************************************************)

\* C18: a successful begin-authentication persists the PKCE verifier in the
\* PendingAuthentication (the verifier of the challenge sent), and neither
\* the signed request object nor the parameters of the redirect url hold it;
\* the callback sends the verifier of the pending entry it matched by state
\* in the token exchange
C18_PkceVerifierKeptAndSent ==
    [][/\ (BeginStep /\ resp'.kind = "redirect")
            => /\ Len(authzRows') = Len(authzRows) + 1
               /\ LET row == authzRows'[Len(authzRows')] IN
                  /\ row.code_verifier \in Verifiers
                  /\ resp'.url.code_challenge = <<"S256", row.code_verifier>>
                  /\ resp'.url.state = row.state
               /\ "code_verifier" \notin DOMAIN resp'.url
               /\ "code_verifier" \notin DOMAIN resp'.url.request
       /\ (CallbackStep /\ cb'.pc = "token_request")
            => /\ AuthzByState(authzRows, cb.q.state) # 0
               /\ cb'.treq.code_verifier =
                    authzRows[AuthzByState(authzRows, cb.q.state)].code_verifier
               /\ cb'.treq.code_verifier \in Verifiers]_vars

\* C18 witness: two flows were begun with different states and verifiers, and
\* the callback of the first is exchanging its code with the first's verifier
C18_Witness ==
    /\ Len(authzRows) = 2
    /\ authzRows[1].state # authzRows[2].state
    /\ authzRows[1].code_verifier # authzRows[2].code_verifier
    /\ cb.pc = "token_request" /\ cb.authz = 1
    /\ cb.treq.code_verifier = authzRows[1].code_verifier
    /\ cb.treq.state = authzRows[1].state

(***************************************************************************)
(* Properties of logout (checked under SpecLogout)                         *)
(***************************************************************************)

\* the handler of the logout request in flight took a step
LogoutStep == lo' # lo /\ lo.pc \in {"received", "found", "logged_out"}

\* C11 (as claimed): every logout of an authenticated identity terminates the
\* local session, also without a live AuthenticationToken and whatever the
\* provider exposes, and it does so before a token is marked as logged out
\* and before the redirect is returned
C11_LogoutTerminatesSession ==
    [][/\ (LogoutStep /\ lo'.pc = "idle") => session' = None
       /\ (LogoutStep /\ (tokenRows' # tokenRows \/ resp'.kind = "redirect"))
            => session = None]_vars

\* the live token logout is about, and whether its PendingAuthentication's
\* provider metadata snapshot has an end-session endpoint
TokenOfLogout == SeqMax(LiveTokens(tokenRows, lo.user))
HasEndSession(t) == authzRows[tokenRows[t].authz].end_session

\* C12: logout marks the most recent live token of the identity as logged out
\* iff the provider snapshot of its PendingAuthentication has an end-session
\* endpoint, and then redirects to that endpoint with the token's id token as
\* id_token_hint; otherwise it redirects to the default location and changes
\* no token; no other token is changed by any step of the logout
C12_LogoutMarksLastLiveToken ==
    [][/\ (LogoutStep /\ lo.pc # "logged_out") => tokenRows' = tokenRows
       /\ (LogoutStep /\ lo.pc = "logged_out") =>
            IF HasEndSession(TokenOfLogout)
            THEN /\ tokenRows' = [tokenRows EXCEPT ![TokenOfLogout].logged_out = TRUE]
                 /\ resp' = LogoutResponse("redirect", "none",
                        EndSessionUrl(authzRows[tokenRows[TokenOfLogout].authz].provider,
                                      tokenRows[TokenOfLogout].id_token))
            ELSE /\ tokenRows' = tokenRows
                 /\ resp' = LogoutResponse("redirect", "none", DefaultLogoutUrl)]_vars

\* C12 witness: the identity had two live tokens with different id tokens, and
\* the later one was marked and hinted, the earlier left alone
C12_Witness ==
    /\ resp.op = "logout" /\ resp.url.to = "end_session_endpoint"
    /\ Len(tokenRows) = 2
    /\ tokenRows[1].user = tokenRows[2].user /\ tokenRows[1].user # None
    /\ ~tokenRows[1].logged_out /\ tokenRows[2].logged_out
    /\ HasEndSession(1)
    /\ tokenRows[1].id_token # tokenRows[2].id_token
    /\ resp.url.id_token_hint = tokenRows[2].id_token
    /\ session = None

(***************************************************************************)
(* Properties of logout among callbacks (checked under SpecLogoutRace)     *)
(***************************************************************************)

\* C23 (as claimed): however a logout interleaves with callbacks that bind new
\* AuthenticationTokens to the same identity, a logout that redirects to an
\* end-session endpoint marks exactly one token, sends the id token of that
\* token as id_token_hint, and that token is one of the PendingAuthentication
\* that supplied the endpoint: the hint goes to the provider of its own flow
C23_LogoutTokenOfItsOwnFlow ==
    [][(LogoutStep /\ lo.pc = "logged_out"
            /\ resp'.url.to = "end_session_endpoint")
        => \E t \in 1 .. Len(tokenRows) :
              /\ tokenRows' = [tokenRows EXCEPT ![t].logged_out = TRUE]
              /\ ~tokenRows[t].logged_out
              /\ resp'.url.id_token_hint = tokenRows[t].id_token
              /\ tokenRows[t].authz = lo.authz
              /\ resp'.url.provider = authzRows[tokenRows[t].authz].provider]_vars

(***************************************************************************)
(* JOSE harness: the helpers applied to bounded inputs                     *)
(***************************************************************************)

\* the algorithm policies tried: the repository default, nothing disabled,
\* and the default signing / encryption algorithms disabled
AlgPolicies == {DefaultDisabledAlgs, {}, {"RS256", "RSA-OAEP"}}

NoResult == [op |-> "none", exc |-> "none", msg |-> None, crypto |-> FALSE]
NoOrigin == [op |-> "received", payload |-> None, key |-> None, alg |-> None]
ResultOf(op, r) == [op |-> op, exc |-> r.exc, msg |-> r.msg, crypto |-> r.crypto]

JoseInit ==
    /\ DISABLED_JWT_ALGS \in AlgPolicies
    /\ JWE_ALG \in EncAlgs
    /\ OIDCFED_TRUST_ANCHORS = DefaultTrustAnchors
    /\ jtok \in AnyTokens
    /\ jkey \in Jwks
    /\ jorigin = NoOrigin
    /\ jres = NoResult
    /\ jhead = IdleHead
    /\ SysIdle

\* a token arrives from outside
JoseReceive(t) ==
    /\ jtok' = t
    /\ jorigin' = NoOrigin
    /\ jres' = NoResult
    /\ UNCHANGED <<jkey, jhead, confVars, sysVars>>

JoseSign(payload, key, alg) ==
    LET r == CreateJws(payload, key, alg) IN
    /\ r.exc = "none"
    /\ jtok' = r.jws
    /\ jkey' = key
    /\ jorigin' = [op |-> "sign", payload |-> payload, key |-> key, alg |-> alg]
    /\ jres' = NoResult
    /\ UNCHANGED <<jhead, confVars, sysVars>>

JoseEncrypt(payload, key) ==
    /\ jtok' = EncryptDict(payload, key)
    /\ jkey' = key
    /\ jorigin' = [op |-> "encrypt", payload |-> payload, key |-> key, alg |-> JWE_ALG]
    /\ jres' = NoResult
    /\ UNCHANGED <<jhead, confVars, sysVars>>

JoseVerify(key) ==
    /\ jres' = ResultOf("verify", VerifyJws(jtok, key))
    /\ jkey' = key
    /\ UNCHANGED <<jtok, jorigin, jhead, confVars, sysVars>>

JoseDecrypt(key) ==
    /\ jres' = ResultOf("decrypt", DecryptJwe(jtok, key))
    /\ jkey' = key
    /\ UNCHANGED <<jtok, jorigin, jhead, confVars, sysVars>>

JoseNext ==
    \/ \E t \in AnyTokens : JoseReceive(t)
    \/ \E p \in Payloads, k \in Jwks, a \in Algs : JoseSign(p, k, a)
    \/ \E p \in Payloads, k \in Jwks : JoseEncrypt(p, k)
    \/ \E k \in Jwks : JoseVerify(k)
    \/ \E k \in Jwks : JoseDecrypt(k)

SpecJose == JoseInit /\ [][JoseNext]_vars

\* ---- unpad_jwt_head at work on first segments of every length ---------------
\* a compact token arrives whose first segment has n characters
HeadArrives(n, json) ==
    /\ jhead.pc \in {"idle", "done"}
    /\ jhead' = [IdleHead EXCEPT !.pc = "received", !.n = n, !.json = json]
    /\ UNCHANGED <<jtok, jkey, jorigin, jres, confVars, sysVars>>

\* unpad_jwt_head(jwt): pad, decode, json.loads
UnpadJwtHead ==
    /\ jhead.pc = "received"
    /\ jhead' = [jhead EXCEPT !.pc = "done",
                              !.padded = PaddedLen(jhead.n),
                              !.exc = IF ~B64Decodes(jhead.n) THEN "binascii.Error"
                                      ELSE IF ~jhead.json THEN "JSONDecodeError"
                                      ELSE "none"]
    /\ UNCHANGED <<jtok, jkey, jorigin, jres, confVars, sysVars>>

HeadInit ==
    /\ ConfDefault
    /\ jtok = OpaqueToken
    /\ jkey = K1
    /\ jorigin = NoOrigin
    /\ jres = NoResult
    /\ SysIdle
    /\ jhead \in {[IdleHead EXCEPT !.pc = "received", !.n = n, !.json = j] :
                     n \in 0 .. MaxSegLen, j \in BOOLEAN}

HeadNext ==
    \/ \E n \in 0 .. MaxSegLen, j \in BOOLEAN : HeadArrives(n, j)
    \/ UnpadJwtHead

SpecHead == HeadInit /\ [][HeadNext]_vars

(***************************************************************************)
(* Properties of the JOSE layer (checked under SpecJose)                   *)
(***************************************************************************)

\* the header alg of the token at hand is present and disabled
AlgIsDisabled == HeadDecodes(jtok) /\ jtok.alg # None /\ jtok.alg \in DISABLED_JWT_ALGS

\* C9 (as claimed): verify and decrypt of a token whose header alg is in the
\* disabled set fail with UnsupportedAlgorithm, whatever its signature,
\* ciphertext and kid are, before any cryptographic work
C9_DisabledAlgAlwaysUnsupported ==
    (jres.op \in {"verify", "decrypt"} /\ AlgIsDisabled)
        => (jres.exc = "UnsupportedAlgorithm" /\ ~jres.crypto)

\* C9 (amended): a token whose header alg is in the disabled set never reaches
\* the cryptographic primitive; decrypt fails with UnsupportedAlgorithm, and
\* verify fails with UnsupportedAlgorithm when the header kid equals the
\* supplied key's kid and with the kid error (KeyMismatch) when it differs
C9_DisabledAlgRejectedEarly ==
    /\ (jres.op = "decrypt" /\ AlgIsDisabled)
          => (jres.exc = "UnsupportedAlgorithm" /\ ~jres.crypto)
    /\ (jres.op = "verify" /\ AlgIsDisabled)
          => /\ ~jres.crypto
             /\ jres.exc = IF jtok.kid = jkey.kid THEN "UnsupportedAlgorithm"
                                                  ELSE "KeyMismatch"

\* C9 witness: a validly signed token under its own key, alg disabled, rejected
C9_Witness ==
    /\ jres.op = "verify" /\ AlgIsDisabled
    /\ jtok.kid = jkey.kid /\ jtok.by = jkey.mat /\ jtok.alg \in SigAlgs
    /\ jres.exc = "UnsupportedAlgorithm"

\* the token at hand was made by create_jws and then verified
SignedThenVerified == jorigin.op = "sign" /\ jres.op = "verify"

\* C10 (as claimed): for every payload, key and alg, verify of the signed
\* token with the public key returns the payload, and verify with a key of
\* another kid fails with KeyMismatch
C10_SignVerifyEveryAlg ==
    /\ (SignedThenVerified /\ jkey = PublicOf(jorigin.key))
          => (jres.exc = "none" /\ jres.msg = jorigin.payload)
    /\ (SignedThenVerified /\ jkey.kid # jtok.kid)
          => jres.exc = "KeyMismatch"

\* C10 (amended): for every payload, key and signing algorithm that is neither
\* "none"/empty nor in the disabled set, verify of the signed token with the
\* public key returns the payload; for every alg, verify with a key whose kid
\* differs from the token's header kid fails with KeyMismatch
C10_SignVerifyRoundTrip ==
    /\ (/\ SignedThenVerified /\ jkey = PublicOf(jorigin.key)
        /\ jorigin.alg \in SigAlgs \ DISABLED_JWT_ALGS)
          => (jres.exc = "none" /\ jres.msg = jorigin.payload)
    /\ (SignedThenVerified /\ jkey.kid # jtok.kid)
          => jres.exc = "KeyMismatch"

\* C10 witness: a signed non-empty payload came back from verify
C10_Witness ==
    /\ SignedThenVerified /\ jkey = PublicOf(jorigin.key)
    /\ jorigin.payload = "claims" /\ jres.msg = "claims" /\ jres.exc = "none"

\* the token at hand was made by encrypt_dict and then decrypted with the
\* private key of the pair it was encrypted for
EncryptedThenDecrypted ==
    /\ jorigin.op = "encrypt" /\ jres.op = "decrypt"
    /\ jkey.priv /\ jkey.kid = jorigin.key.kid /\ jkey.mat = jorigin.key.mat

\* C16 (as claimed): for every payload, key pair and algorithm policy,
\* decrypt(encrypt(p, k.public), k.private) returns p
C16_EncryptDecryptEveryPolicy ==
    EncryptedThenDecrypted => (jres.exc = "none" /\ jres.msg = jorigin.payload)

\* C16 (amended): for every payload and key pair, decrypt(encrypt(p, k.public),
\* k.private) returns p when the configured JWE algorithm is not in the
\* disabled set, and fails with UnsupportedAlgorithm when it is
C16_EncryptDecryptRoundTrip ==
    EncryptedThenDecrypted =>
        IF JWE_ALG \in DISABLED_JWT_ALGS
        THEN jres.exc = "UnsupportedAlgorithm"
        ELSE jres.exc = "none" /\ jres.msg = jorigin.payload

\* C16 witness: a non-empty payload encrypted to a public key came back from
\* decrypt with the private key
C16_Witness ==
    /\ EncryptedThenDecrypted /\ ~jorigin.key.priv
    /\ jorigin.payload = "claims" /\ jres.msg = "claims" /\ jres.exc = "none"

(***************************************************************************)
(* Properties of unpad_jwt_head (checked under SpecHead)                   *)
(***************************************************************************)

\* the lengths an unpadded base64url encoding can have
UnpaddedLength(n) == n % 4 \in {0, 2, 3}

\* C22 (as claimed): for every length of the first segment that a valid
\* unpadded base64url encoding can have, the padded string unpad_jwt_head
\* hands to the decoder has a length that is a multiple of 4
C22_PaddedLengthMultipleOf4 ==
    (jhead.pc = "done" /\ UnpaddedLength(jhead.n)) => jhead.padded % 4 = 0

====
